---- MODULE Spec2Model ----
(***************************************************************************)
(* A model of local_llm.Plugin (src/packages/llm/local_llm/plugin.py):     *)
(* plugins wired into a graph through their outputs lists, each threaded   *)
(* plugin draining its queue from its own thread.                          *)
(*                                                                         *)
(* Two families of specifications share the variables:                     *)
(*   Spec / SpecFair  the dataflow: producers calling input(), the _run    *)
(*                    loop of every threaded plugin, update() and output() *)
(*                    statement by statement, on graphs fixed beforehand;  *)
(*   SpecGraph        the graph calls add() and find().                    *)
(***************************************************************************)
EXTENDS Integers, Sequences, FiniteSets, TLC

\* ------------------------------------------------------------------ bounds
\* External items fed in one run (distinct integers 1..MaxItems).
MaxItems == 2
\* External threads calling input() concurrently.
NumProducers == 2
\* Edges add() may create in one run, and plugins there may be in all
\* (two to start with, the rest wrapped callables).
MaxEdges == 2
MaxPlugins == 3
\* Depth of nested find() calls at which the interpreter gives up.
RecursionLimit == 6
\* Largest channel a stage passes to output() (outputs lists have two entries).
MaxChannel == 2
\* Tokens the model generates for one prompt, at most.
MaxTokens == 2
\* Times a value may pass through process() on a cycle before the run is cut.
MaxHops == 3

\* ------------------------------------------------------------- the plugins
Nodes == 1..3
Producers == 4..(3 + NumProducers)

\* Python's None: the empty result, and the not-found indicator of find().
None == 0
\* Ghost mark in the processed log: process() raised instead of returning.
Raised == -1
\* Ghost mark for a find() that ended in the interpreter's RecursionError.
RecursionError == -2

VARIABLES
    relay,      \* self.relay per plugin
    threaded,   \* self.threaded per plugin
    outputs,    \* self.outputs per plugin: a sequence of plugins
    class,      \* type(self) per plugin: the class that supplies process()
    entry,      \* the plugins external code calls input() on
    itype,      \* the Python type of each item external code feeds
    queue,      \* self.queue per threaded plugin (queue.Queue, FIFO)
    event,      \* self.event per threaded plugin (threading.Event)
    pc,         \* where self.thread stands in _run/update/output
    cur,        \* update()'s local `input` (None outside an iteration)
    res,        \* what self.process(input) returned in this iteration
    call,       \* which of update()'s calls of self.output() is in progress
    val,        \* output()'s argument `output` of the call in progress
    idx,        \* position of output()'s for loop in self.outputs
    chan,       \* output()'s argument `channel` of a call made inside process()
    chat,       \* self.chat_history per plugin (a ChatQuery has one)
    stream,     \* the generator ChatQuery.process() iterates: its tokens, and the next
    ppc,        \* external producers: "idle", or "set" inside input()
    ptarget,    \* the plugin whose input() a producer is inside
    nextItem,   \* next external item to feed
    delivered,  \* ghost: every queue.put, in order, with its target and cause
    processed,  \* ghost: every process() call of a plugin, in order
    syncCalls,  \* ghost: finished input() calls on plugins built threaded=False
    emitted,    \* ghost: every output() call made inside process(), in order
    ret,        \* ghost: the last add() or find() call and how it ended
    before      \* ghost: the outputs lists as that call found them

vars == <<relay, threaded, outputs, class, entry, itype, queue, event, pc, cur, res, call,
          val, idx, chan, chat, stream, ppc, ptarget, nextItem, delivered, processed,
          syncCalls, emitted, ret, before>>

graphVars == <<relay, threaded, outputs, class, entry, itype>>
threadVars == <<pc, cur, res, call, val, idx>>
\* What a stage's process() keeps between its steps, and the log of its calls.
stageVars == <<chan, chat, stream, emitted>>
prodVars == <<ppc, ptarget, nextItem>>

\* ------------------------------------------------------------ constructor
\* Plugin.__init__: the attributes a plugin has after construction. Only a
\* threaded plugin gets queue, event and thread.
Attrs(isThreaded) ==
    IF isThreaded THEN {"relay", "threaded", "outputs", "queue", "event", "thread"}
    ELSE {"relay", "threaded", "outputs"}

HasAttr(n, a) == a \in Attrs(threaded[n])

\* What process() of each class does with an item. The base class's always
\* raises; of the overrides, a sink returns None, a map a derived value, a
\* filter either, and a failing stage may also raise. Callback's delegates
\* to the wrapped function, which returns a result or None. An emitter and
\* a ChatQuery call self.output() themselves before they return.
Stage(c) ==
    CASE c = "Plugin" -> {"raise"}
      [] c = "Sink" -> {"none"}
      [] c = "Map" -> {"derive"}
      [] c = "Filter" -> {"none", "derive"}
      [] c = "Failing" -> {"none", "derive", "raise"}
      [] c = "Callback" -> {"none", "derive"}
      [] c = "Emitter" -> {"emit"}
      [] c = "ChatQuery" -> {"emit"}

\* Graphs the dataflow runs on, each the result of add() calls on fresh
\* plugins: fan-out with relay to two plain Plugin() instances, a duplicate
\* edge with relay, an edge whose target is also fed from outside, an edge
\* to a plugin built with threaded=False, and no edge at all.
Topologies ==
    { [relay |-> <<TRUE, FALSE, FALSE>>, threaded |-> <<TRUE, TRUE, TRUE>>,
       outputs |-> << <<2, 3>>, <<>>, <<>> >>,
       class |-> <<"Filter", "Plugin", "Plugin">>, entry |-> {1}],
      [relay |-> <<TRUE, FALSE, FALSE>>, threaded |-> <<TRUE, TRUE, TRUE>>,
       outputs |-> << <<2, 2>>, <<>>, <<>> >>,
       class |-> <<"Map", "Sink", "Sink">>, entry |-> {1}],
      [relay |-> <<FALSE, FALSE, FALSE>>, threaded |-> <<TRUE, TRUE, TRUE>>,
       outputs |-> << <<2>>, <<>>, <<>> >>,
       class |-> <<"Filter", "Sink", "Sink">>, entry |-> {1, 2}],
      [relay |-> <<TRUE, FALSE, FALSE>>, threaded |-> <<TRUE, TRUE, FALSE>>,
       outputs |-> << <<2, 3>>, <<>>, <<>> >>,
       class |-> <<"Filter", "Sink", "Sink">>, entry |-> {1, 3}],
      [relay |-> <<FALSE, FALSE, FALSE>>, threaded |-> <<TRUE, TRUE, TRUE>>,
       outputs |-> << <<>>, <<>>, <<>> >>,
       class |-> <<"Failing", "Sink", "Sink">>, entry |-> {1}] }

\* No generator yet.
NoStream == [tokens |-> <<>>, next |-> 1]

\* Every item fed is a str.
AllStr == [x \in 1..MaxItems |-> "str"]

\* Plugin.__init__ has run on every plugin: a threaded plugin has an empty
\* queue, a clear event and its thread started on _run; the others have none
\* of the three.
Constructed ==
    /\ queue = [n \in DOMAIN threaded |-> <<>>]
    /\ event = [n \in DOMAIN threaded |-> FALSE]
    /\ pc = [n \in DOMAIN threaded |-> IF threaded[n] THEN "wait" ELSE "none"]
    /\ cur = [n \in DOMAIN threaded |-> None]
    /\ res = [n \in DOMAIN threaded |-> None]
    /\ call = [n \in DOMAIN threaded |-> 0]
    /\ val = [n \in DOMAIN threaded |-> None]
    /\ idx = [n \in DOMAIN threaded |-> 0]
    /\ chan = [n \in DOMAIN threaded |-> -1]
    /\ chat = [n \in DOMAIN threaded |-> <<>>]
    /\ stream = [n \in DOMAIN threaded |-> NoStream]
    /\ emitted = [n \in DOMAIN threaded |-> <<>>]

\* No graph call made yet.
NoCall ==
    [op |-> "none", self |-> None, tkind |-> "none", target |-> None,
     mode |-> "none", type |-> "none", err |-> "ok", result |-> None]

\* Nothing has been fed, put or called yet.
Idle ==
    /\ ppc = [p \in Producers |-> "idle"]
    /\ ptarget = [p \in Producers |-> None]
    /\ nextItem = 1
    /\ delivered = <<>>
    /\ processed = [n \in DOMAIN threaded |-> <<>>]
    /\ syncCalls = {}
    /\ ret = NoCall
    /\ before = outputs

Init ==
    /\ \E g \in Topologies :
          /\ relay = g.relay
          /\ threaded = g.threaded
          /\ outputs = g.outputs
          /\ class = g.class
          /\ entry = g.entry
    /\ itype = AllStr
    /\ Constructed
    /\ Idle

\* ---------------------------------------------------------------- input()
\* A put on a queue of capacity one: it blocks while the queue holds an item.
QueuePut_Bounded(d, v, t, cause, k) ==
    /\ Len(queue[d]) < 1
    /\ queue' = [queue EXCEPT ![d] = Append(@, v)]
    /\ delivered' = Append(delivered, [dst |-> d, src |-> t, cause |-> cause,
                                       kind |-> k, val |-> v])

\* self.queue.put(input) on plugin d by thread t: appended at the tail.
\* The ghost log records who put it and for which of its items.
QueuePut(d, v, t, cause, k) ==
    /\ queue' = [queue EXCEPT ![d] = Append(@, v)]
    /\ delivered' = Append(delivered, [dst |-> d, src |-> t, cause |-> cause,
                                       kind |-> k, val |-> v])

\* A set() that wakes nobody.
EventSet_Lost(d) == event' = event

\* self.event.set() on plugin d.
EventSet(d) == event' = [event EXCEPT ![d] = TRUE]

\* An external thread enters input(item) on a threaded plugin: line 117.
ExtPut(p, d) ==
    /\ ppc[p] = "idle"
    /\ nextItem <= MaxItems
    /\ d \in entry
    /\ threaded[d]
    /\ QueuePut(d, nextItem, p, nextItem, "ext")
    /\ ppc' = [ppc EXCEPT ![p] = "set"]
    /\ ptarget' = [ptarget EXCEPT ![p] = d]
    /\ nextItem' = nextItem + 1
    /\ UNCHANGED <<graphVars, stageVars, threadVars, event, processed, syncCalls, ret, before>>

\* input() that returns without signalling the event.
ExtSet_NoSignal(p) ==
    /\ ppc[p] = "set"
    /\ ppc' = [ppc EXCEPT ![p] = "idle"]
    /\ ptarget' = [ptarget EXCEPT ![p] = None]
    /\ UNCHANGED <<graphVars, stageVars, threadVars, queue, event, nextItem, delivered,
                   processed, syncCalls, ret, before>>

\* ... and leaves it after line 118.
ExtSet(p) ==
    /\ ppc[p] = "set"
    /\ EventSet(ptarget[p])
    /\ ppc' = [ppc EXCEPT ![p] = "idle"]
    /\ ptarget' = [ptarget EXCEPT ![p] = None]
    /\ UNCHANGED <<graphVars, stageVars, threadVars, queue, nextItem, delivered, processed, syncCalls, ret, before>>

\* ------------------------------------------------------------------ _run()
\* self.event.wait(): returns once the event is set.
Wait(n) ==
    /\ pc[n] = "wait"
    /\ event[n]
    /\ pc' = [pc EXCEPT ![n] = "clear"]
    /\ UNCHANGED <<graphVars, stageVars, prodVars, queue, event, cur, res, call, val, idx,
                   delivered, processed, syncCalls, ret, before>>

\* self.event.clear()
Clear(n) ==
    /\ pc[n] = "clear"
    /\ event' = [event EXCEPT ![n] = FALSE]
    /\ pc' = [pc EXCEPT ![n] = "empty"]
    /\ UNCHANGED <<graphVars, stageVars, prodVars, queue, cur, res, call, val, idx,
                   delivered, processed, syncCalls, ret, before>>

\* ---------------------------------------------------------------- update()
\* while not self.queue.empty(): leaves update() back to _run's wait.
Empty(n) ==
    /\ pc[n] = "empty"
    /\ pc' = [pc EXCEPT ![n] = IF queue[n] = <<>> THEN "wait" ELSE "get"]
    /\ UNCHANGED <<graphVars, stageVars, prodVars, queue, event, cur, res, call, val, idx,
                   delivered, processed, syncCalls, ret, before>>

\* A get() that takes the newest item instead of the oldest.
Get_Newest(n) ==
    /\ pc[n] = "get"
    /\ queue[n] # <<>>
    /\ cur' = [cur EXCEPT ![n] = queue[n][Len(queue[n])]]
    /\ queue' = [queue EXCEPT ![n] = SubSeq(@, 1, Len(@) - 1)]
    /\ pc' = [pc EXCEPT ![n] = "process"]
    /\ UNCHANGED <<graphVars, stageVars, prodVars, event, res, call, val, idx, delivered, processed, syncCalls, ret, before>>

\* input = self.queue.get()
Get(n) ==
    /\ pc[n] = "get"
    /\ queue[n] # <<>>
    /\ cur' = [cur EXCEPT ![n] = Head(queue[n])]
    /\ queue' = [queue EXCEPT ![n] = Tail(@)]
    /\ pc' = [pc EXCEPT ![n] = "process"]
    /\ UNCHANGED <<graphVars, stageVars, prodVars, event, res, call, val, idx, delivered, processed, syncCalls, ret, before>>

\* What process(x) hands back when it returns: a value derived from x, or
\* None, as the plugin's class allows.
Derive(x) == x + MaxItems

ProcessResults(n, x) ==
    (IF "none" \in Stage(class[n]) THEN {None} ELSE {})
        \cup (IF "derive" \in Stage(class[n]) THEN {Derive(x)} ELSE {})

\* update() relaying the input before it emits the result.
UpdateCalls_RelayFirst(n) == IF relay[n] THEN <<"relay", "result">> ELSE <<"result">>

\* The calls of self.output() update() makes for one item, in order:
\* self.output(self.process(input)), then `if self.relay: self.output(input)`.
UpdateCalls(n) == IF relay[n] THEN <<"result", "relay">> ELSE <<"result">>

\* The argument of the c-th of these calls.
CallValue(n, c, input, result) ==
    IF UpdateCalls(n)[c] = "result" THEN result ELSE input

\* self.process(input) returns r, and update() enters its first output().
ProcessReturn(n, r) ==
    /\ pc[n] = "process"
    /\ r \in ProcessResults(n, cur[n])
    /\ processed' = [processed EXCEPT ![n] = Append(@, [val |-> cur[n], res |-> r])]
    /\ res' = [res EXCEPT ![n] = r]
    /\ call' = [call EXCEPT ![n] = 1]
    /\ val' = [val EXCEPT ![n] = CallValue(n, 1, cur[n], r)]
    /\ pc' = [pc EXCEPT ![n] = "output"]
    /\ UNCHANGED <<graphVars, stageVars, prodVars, queue, event, cur, idx, delivered, syncCalls, ret, before>>

\* A loop that catches the exception, logs it and goes on to the next item.
ProcessRaise_CatchAndLog(n) ==
    /\ pc[n] = "process"
    /\ "raise" \in Stage(class[n])
    /\ processed' = [processed EXCEPT ![n] = Append(@, [val |-> cur[n], res |-> Raised])]
    /\ pc' = [pc EXCEPT ![n] = "empty"]
    /\ cur' = [cur EXCEPT ![n] = None]
    /\ UNCHANGED <<graphVars, stageVars, prodVars, queue, event, res, call, val, idx,
                   delivered, syncCalls, ret, before>>

\* self.process(input) raises (the base class always does): the exception
\* leaves update() and _run(), and the thread ends.
ProcessRaise(n) ==
    /\ pc[n] = "process"
    /\ "raise" \in Stage(class[n])
    /\ processed' = [processed EXCEPT ![n] = Append(@, [val |-> cur[n], res |-> Raised])]
    /\ pc' = [pc EXCEPT ![n] = "dead"]
    /\ UNCHANGED <<graphVars, stageVars, prodVars, queue, event, cur, res, call, val, idx, delivered, syncCalls, ret, before>>

\* ---------------------------------------------------------------- output()
\* update() written with `if` for `while`: back to _run's wait after one item.
ReturnFromOutput_OneItem(n) ==
    IF call[n] < Len(UpdateCalls(n))
    THEN /\ pc' = [pc EXCEPT ![n] = "output"]
         /\ call' = [call EXCEPT ![n] = @ + 1]
         /\ val' = [val EXCEPT ![n] = CallValue(n, call[n] + 1, cur[n], res[n])]
         /\ idx' = [idx EXCEPT ![n] = 0]
         /\ UNCHANGED <<cur, res>>
    ELSE /\ pc' = [pc EXCEPT ![n] = "wait"]
         /\ call' = [call EXCEPT ![n] = 0]
         /\ val' = [val EXCEPT ![n] = None]
         /\ idx' = [idx EXCEPT ![n] = 0]
         /\ cur' = [cur EXCEPT ![n] = None]
         /\ res' = [res EXCEPT ![n] = None]

\* update() after a call of self.output() has returned: the next call for
\* this item, or the while test again.
ReturnFromOutput(n) ==
    IF call[n] < Len(UpdateCalls(n))
    THEN /\ pc' = [pc EXCEPT ![n] = "output"]
         /\ call' = [call EXCEPT ![n] = @ + 1]
         /\ val' = [val EXCEPT ![n] = CallValue(n, call[n] + 1, cur[n], res[n])]
         /\ idx' = [idx EXCEPT ![n] = 0]
         /\ UNCHANGED <<cur, res>>
    ELSE /\ pc' = [pc EXCEPT ![n] = "empty"]
         /\ call' = [call EXCEPT ![n] = 0]
         /\ val' = [val EXCEPT ![n] = None]
         /\ idx' = [idx EXCEPT ![n] = 0]
         /\ cur' = [cur EXCEPT ![n] = None]
         /\ res' = [res EXCEPT ![n] = None]

\* output() without its None test: None is broadcast like any value.
OutputNone_Broadcast(n) ==
    /\ pc[n] = "output"
    /\ val[n] = None
    /\ IF outputs[n] = <<>>
       THEN ReturnFromOutput(n)
       ELSE /\ pc' = [pc EXCEPT ![n] = "put"]
            /\ idx' = [idx EXCEPT ![n] = 1]
            /\ UNCHANGED <<cur, res, call, val>>
    /\ UNCHANGED <<graphVars, stageVars, prodVars, queue, event, delivered, processed, syncCalls, ret, before>>

\* output(None): `if output is None: return`.
OutputNone(n) ==
    /\ pc[n] = "output"
    /\ val[n] = None
    /\ ReturnFromOutput(n)
    /\ UNCHANGED <<graphVars, stageVars, prodVars, queue, event, delivered, processed, syncCalls, ret, before>>

\* An output() that delivers to nobody.
OutputBroadcast_Drop(n) ==
    /\ pc[n] = "output"
    /\ val[n] # None
    /\ ReturnFromOutput(n)
    /\ UNCHANGED <<graphVars, stageVars, prodVars, queue, event, delivered, processed,
                   syncCalls, ret, before>>

\* output(v) with the default channel -1: the for loop over self.outputs
\* starts; with no outputs it ends at once.
OutputBroadcast(n) ==
    /\ pc[n] = "output"
    /\ val[n] # None
    /\ IF outputs[n] = <<>>
       THEN ReturnFromOutput(n)
       ELSE /\ pc' = [pc EXCEPT ![n] = "put"]
            /\ idx' = [idx EXCEPT ![n] = 1]
            /\ UNCHANGED <<cur, res, call, val>>
    /\ UNCHANGED <<graphVars, stageVars, prodVars, queue, event, delivered, processed, syncCalls, ret, before>>

\* What update() does first on plugin d: `self.queue.empty()` reads an
\* attribute that only a threaded plugin has.
UpdateEntry(d) == IF HasAttr(d, "queue") THEN "ok" ELSE "AttributeError"

\* An input() that puts the item at the head of the queue.
DeliverPut_Front(n) ==
    /\ pc[n] = "put"
    /\ LET d == outputs[n][idx[n]] IN
          /\ threaded[d]
          /\ queue' = [queue EXCEPT ![d] = <<val[n]>> \o @]
          /\ delivered' = Append(delivered,
                 [dst |-> d, src |-> n, cause |-> Len(processed[n]),
                  kind |-> UpdateCalls(n)[call[n]], val |-> val[n]])
    /\ pc' = [pc EXCEPT ![n] = "set"]
    /\ UNCHANGED <<graphVars, stageVars, prodVars, event, cur, res, call, val, idx, processed,
                   syncCalls, ret, before>>

\* output_channel.input(output) on a threaded target: its queue.put.
DeliverPut(n) ==
    /\ pc[n] = "put"
    /\ LET d == outputs[n][idx[n]] IN
          /\ threaded[d]
          /\ QueuePut(d, val[n], n, Len(processed[n]), UpdateCalls(n)[call[n]])
    /\ pc' = [pc EXCEPT ![n] = "set"]
    /\ UNCHANGED <<graphVars, stageVars, prodVars, event, cur, res, call, val, idx, processed, syncCalls, ret, before>>

\* output_channel.input(output) on a target built with threaded=False:
\* input() calls update(), which fails on self.queue; the AttributeError
\* leaves output(), update() and _run(), and the thread of n ends.
DeliverSync(n) ==
    /\ pc[n] = "put"
    /\ LET d == outputs[n][idx[n]] IN
          /\ ~threaded[d]
          /\ UpdateEntry(d) = "AttributeError"
    /\ pc' = [pc EXCEPT ![n] = "dead"]
    /\ UNCHANGED <<graphVars, stageVars, prodVars, queue, event, cur, res, call, val, idx,
                   delivered, processed, syncCalls, ret, before>>

\* A for loop that stops after its first target.
DeliverSet_FirstOnly(n) ==
    /\ pc[n] = "set"
    /\ EventSet(outputs[n][idx[n]])
    /\ ReturnFromOutput(n)
    /\ UNCHANGED <<graphVars, stageVars, prodVars, queue, delivered, processed, syncCalls, ret, before>>

\* ... then its event.set(), and the for loop moves on or output() returns.
DeliverSet(n) ==
    /\ pc[n] = "set"
    /\ EventSet(outputs[n][idx[n]])
    /\ IF idx[n] < Len(outputs[n])
       THEN /\ pc' = [pc EXCEPT ![n] = "put"]
            /\ idx' = [idx EXCEPT ![n] = @ + 1]
            /\ UNCHANGED <<cur, res, call, val>>
       ELSE ReturnFromOutput(n)
    /\ UNCHANGED <<graphVars, stageVars, prodVars, queue, delivered, processed, syncCalls, ret, before>>

\* An external thread calls input(item) on a plugin built threaded=False:
\* the else branch, self.update(), and what comes of it.
ExtInputSync(p, d) ==
    /\ ppc[p] = "idle"
    /\ nextItem <= MaxItems
    /\ d \in entry
    /\ ~threaded[d]
    /\ UpdateEntry(d) = "AttributeError"
    /\ syncCalls' = syncCalls \cup {[node |-> d, item |-> nextItem, err |-> UpdateEntry(d)]}
    /\ nextItem' = nextItem + 1
    /\ UNCHANGED <<graphVars, stageVars, threadVars, queue, event, ppc, ptarget, delivered, processed,
                   ret, before>>

\* ------------------------------------------------------- the specification
Dispatch(n) ==
    \/ Wait(n)
    \/ Clear(n)
    \/ Empty(n)
    \/ Get(n)
    \/ \E r \in ProcessResults(n, cur[n]) : ProcessReturn(n, r)
    \/ ProcessRaise(n)
    \/ OutputNone(n)
    \/ OutputBroadcast(n)
    \/ DeliverPut(n)
    \/ DeliverSync(n)
    \/ DeliverSet(n)

Produce(p) ==
    \/ \E d \in Nodes : ExtPut(p, d)
    \/ ExtSet(p)
    \/ \E d \in Nodes : ExtInputSync(p, d)

Next ==
    \/ \E n \in Nodes : Dispatch(n)
    \/ \E p \in Producers : Produce(p)

Spec == Init /\ [][Next]_vars

\* Fair scheduling: every thread that can take a step eventually takes one.
SpecFair ==
    /\ Spec
    /\ \A n \in Nodes : WF_vars(Dispatch(n))
    /\ \A p \in Producers : WF_vars(ExtSet(p))

\* ================================================================ the graph
\* Where the graph calls start: two plugins constructed and not yet
\* connected, or a tree built earlier by 1.add(2), 1.add(4), 2.add(3).
GraphInits ==
    { [class |-> <<"Map", "Sink">>, outputs |-> << <<>>, <<>> >>],
      [class |-> <<"Map", "Filter", "Sink", "Sink">>,
       outputs |-> << <<2, 4>>, <<3>>, <<>>, <<>> >>] }

InitGraph ==
    /\ \E g \in GraphInits :
          /\ class = g.class
          /\ outputs = g.outputs
    /\ relay = [n \in DOMAIN outputs |-> FALSE]
    /\ threaded = [n \in DOMAIN outputs |-> TRUE]
    /\ entry = {}
    /\ itype = AllStr
    /\ Constructed
    /\ Idle

\* The plugins there are.
Plugins == DOMAIN outputs

\* isinstance(plugin, type): every class derives from Plugin.
IsInstance(n, type) == type = "Plugin" \/ class[n] = type

\* The classes find() is asked for; no plugin is a ChatQuery here.
FindTypes == {"Plugin", "Map", "Filter", "Sink", "Callback", "ChatQuery"}

\* What add() is handed as `plugin`: a plugin, a callable, or neither.
TargetKinds == {"plugin", "callable", "other"}
\* ... and as `mode`.
Modes == {"output", "input", "sideways"}

\* ------------------------------------------------------------------- add()
\* How add(plugin, mode) ends: the type test comes first, the mode test last.
AddError(tkind, mode) ==
    IF tkind = "other" THEN "TypeError"
    ELSE IF mode \notin {"output", "input"} THEN "ValueError"
    ELSE "ok"

\* add() that appends to self.outputs before it looks at an unknown mode.
AddEdge_AppendFirst(outs, self, plugin, mode) ==
    IF mode = "input"
    THEN [outs EXCEPT ![plugin] = Append(@, self)]
    ELSE [outs EXCEPT ![self] = Append(@, plugin)]

\* add() that inserts the new edge at the head of the list.
AddEdge_Insert(outs, self, plugin, mode) ==
    IF mode = "output"
    THEN [outs EXCEPT ![self] = <<plugin>> \o @]
    ELSE IF mode = "input"
    THEN [outs EXCEPT ![plugin] = <<self>> \o @]
    ELSE outs

\* The outputs lists after lines 73-78.
AddEdge(outs, self, plugin, mode) ==
    IF mode = "output"
    THEN [outs EXCEPT ![self] = Append(@, plugin)]
    ELSE IF mode = "input"
    THEN [outs EXCEPT ![plugin] = Append(@, self)]
    ELSE outs

\* Callback(plugin): a new plugin of class Callback, constructed with the
\* defaults relay=False, threaded=True, so with a queue, an event and a
\* thread of its own.
NewCallback ==
    /\ relay' = Append(relay, FALSE)
    /\ threaded' = Append(threaded, TRUE)
    /\ class' = Append(class, "Callback")
    /\ queue' = Append(queue, <<>>)
    /\ event' = Append(event, FALSE)
    /\ pc' = Append(pc, "wait")
    /\ cur' = Append(cur, None)
    /\ res' = Append(res, None)
    /\ call' = Append(call, 0)
    /\ val' = Append(val, None)
    /\ idx' = Append(idx, 0)
    /\ chan' = Append(chan, -1)
    /\ chat' = Append(chat, <<>>)
    /\ stream' = Append(stream, NoStream)
    /\ emitted' = Append(emitted, <<>>)
    /\ processed' = Append(processed, <<>>)

\* The number of edges in the graph.
RECURSIVE EdgeCount(_, _)
EdgeCount(outs, n) == IF n = 0 THEN 0 ELSE Len(outs[n]) + EdgeCount(outs, n - 1)

\* self.add(plugin, mode), plugin being the plugin `target` (tkind "plugin"),
\* a callable or something else.
Add(self, tkind, target, mode) ==
    /\ self \in Plugins
    /\ IF tkind = "plugin" THEN target \in Plugins ELSE target = None
    /\ tkind = "callable" => Len(outputs) < MaxPlugins
    /\ AddError(tkind, mode) = "ok" => EdgeCount(outputs, Len(outputs)) < MaxEdges
    /\ before' = outputs
    /\ ret' = [op |-> "add", self |-> self, tkind |-> tkind, target |-> target,
               mode |-> mode, type |-> "none", err |-> AddError(tkind, mode),
               result |-> IF AddError(tkind, mode) = "ok" THEN self ELSE None]
    /\ IF tkind = "other"
       THEN UNCHANGED <<relay, threaded, outputs, class, queue, event, threadVars, stageVars,
                        processed>>
       ELSE IF tkind = "callable"
       THEN /\ NewCallback
            /\ outputs' = AddEdge(Append(outputs, <<>>), self, Len(outputs) + 1, mode)
       ELSE /\ outputs' = AddEdge(outputs, self, target, mode)
            /\ UNCHANGED <<relay, threaded, class, queue, event, threadVars, stageVars,
                           processed>>
    /\ UNCHANGED <<entry, itype, prodVars, delivered, syncCalls>>

\* ------------------------------------------------------------------ find()
\* find() that looks at the outputs and never into them.
RECURSIVE FindOutputs_Shallow(_, _, _, _)
FindOutputs_Shallow(n, i, type, depth) ==
    IF i > Len(outputs[n]) THEN None
    ELSE IF IsInstance(outputs[n][i], type) THEN outputs[n][i]
    ELSE FindOutputs_Shallow(n, i + 1, type, depth)

\* n.find(type) at nesting depth `depth`, and its for loop from the i-th
\* output on. A RecursionError leaves every enclosing call at once.
RECURSIVE Find(_, _, _)
RECURSIVE FindOutputs(_, _, _, _)
FindOutputs(n, i, type, depth) ==
    IF i > Len(outputs[n]) THEN None
    ELSE IF IsInstance(outputs[n][i], type) THEN outputs[n][i]
    ELSE LET plugin == Find(outputs[n][i], type, depth + 1) IN
         IF plugin # None THEN plugin
         ELSE FindOutputs(n, i + 1, type, depth)

\* find() that gives up quietly when it has gone too deep.
Find_GivesUp(n, type, depth) ==
    IF depth > RecursionLimit THEN None
    ELSE IF IsInstance(n, type) THEN n
    ELSE FindOutputs(n, 1, type, depth)

Find(n, type, depth) ==
    IF depth > RecursionLimit THEN RecursionError
    ELSE IF IsInstance(n, type) THEN n
    ELSE FindOutputs(n, 1, type, depth)

\* root.find(type), or root[type].
FindCall(root, type) ==
    /\ root \in Plugins
    /\ type \in FindTypes
    /\ before' = outputs
    /\ ret' = [op |-> "find", self |-> root, tkind |-> "none", target |-> None,
               mode |-> "none", type |-> type, err |-> "ok",
               result |-> Find(root, type, 1)]
    /\ UNCHANGED <<graphVars, stageVars, threadVars, prodVars, queue, event, delivered,
                   processed, syncCalls>>

GraphNext ==
    \/ \E self \in Plugins, tkind \in TargetKinds, target \in Plugins \cup {None},
          mode \in Modes : Add(self, tkind, target, mode)
    \/ \E root \in Plugins, type \in FindTypes : FindCall(root, type)

SpecGraph == InitGraph /\ [][GraphNext]_vars

\* ------------------------------------------------------------- ghost views
\* The queue.put calls thread t made, in the order they took effect, and
\* those among them it made for its k-th item.
PutsBy(t) == SelectSeq(delivered, LAMBDA e : e.src = t)

PutsFor(t, k) == SelectSeq(delivered, LAMBDA e : e.src = t /\ e.cause = k)

\* The values put on plugin n's queue, in order.
Received(n) ==
    LET P == SelectSeq(delivered, LAMBDA e : e.dst = n) IN
    [i \in 1..Len(P) |-> P[i].val]

\* The values plugin n has passed to process(), in order.
ProcessedVals(n) == [i \in 1..Len(processed[n]) |-> processed[n][i].val]

\* The item plugin n has taken off its queue and not yet passed to process().
Taken(n) == IF pc[n] = "process" THEN <<cur[n]>> ELSE <<>>

\* The _run loop of plugin n has ended with an exception.
Dead(n) == pc[n] = "dead"

\* The puts thread n made for the c-th output() call of its k-th item.
CallPuts(n, k, c) ==
    SelectSeq(PutsFor(n, k), LAMBDA e : e.kind = UpdateCalls(n)[c])

\* The c-th output() call of n's k-th item has returned.
CallDone(n, k, c) ==
    /\ k \in 1..Len(processed[n])
    /\ processed[n][k].res # Raised
    /\ c \in 1..Len(UpdateCalls(n))
    /\ \/ k < Len(processed[n])
       \/ pc[n] \in {"empty", "wait", "clear", "get", "process"}
       \/ pc[n] \in {"output", "put", "set", "dead"} /\ call[n] > c

\* ------------------------------------------------------------------ claims

\* C1: on every threaded plugin, whatever the interleaving of producers and
\* the dispatch loop, the items put on its queue are exactly the items
\* processed, the item taken and the items still queued (none lost, none
\* twice, none invented), and under fair scheduling the loop catches up with
\* everything put again and again, unless an exception has ended it.
C1_ExactlyOnce ==
    /\ [](\A n \in Nodes : Received(n) = ProcessedVals(n) \o Taken(n) \o queue[n])
    /\ \A n \in Nodes :
          []<>(Dead(n) \/ Len(processed[n]) = Len(Received(n)))

\* C1's case: one plugin has processed items of two different producers.
C1_Witness ==
    \E n \in Nodes : \E i, j \in 1..Len(delivered) :
        /\ delivered[i].dst = n /\ delivered[j].dst = n
        /\ delivered[i].src \in Producers /\ delivered[j].src \in Producers
        /\ delivered[i].src # delivered[j].src
        /\ Len(processed[n]) = 2
        /\ ~Dead(n)

\* A thread is inside input() on plugin n: its put done, its set not yet.
MidInput(n) ==
    \/ \E p \in Producers : ppc[p] = "set" /\ ptarget[p] = n
    \/ \E m \in Nodes : pc[m] = "set" /\ outputs[m][idx[m]] = n

\* C2: no lost wake-up: whenever the dispatch loop is blocked in wait with
\* the event clear, the queue is empty unless some producer has done its put
\* and not yet its set.
C2_NoLostWakeup ==
    \A n \in Nodes :
        (pc[n] = "wait" /\ ~event[n]) => (queue[n] = <<>> \/ MidInput(n))

\* C2's case: an item arrived after the clear and the loop is back in wait.
C2_Witness ==
    \E n \in Nodes :
        /\ pc[n] = "wait" /\ ~event[n] /\ queue[n] # <<>>
        /\ Len(processed[n]) >= 1

\* s is an initial segment of t.
IsPrefix(s, t) == Len(s) <= Len(t) /\ s = SubSeq(t, 1, Len(s))

\* C3: FIFO: the order of process() calls of a plugin is the order in which
\* the puts on its queue took effect, across drain passes.
C3_Fifo == \A n \in Nodes : IsPrefix(ProcessedVals(n), Received(n))

\* C3's case: a plugin has processed two different values that were on its
\* queue together.
C3_Witness ==
    \E n \in Nodes :
        /\ Len(processed[n]) = 1
        /\ Len(queue[n]) >= 1
        /\ Head(queue[n]) # processed[n][1].val

\* C4: relay ordering: of the puts a relaying plugin makes, those for one
\* item are not interleaved with those for another, the puts of the result
\* come before the puts of the relayed input, and a target that is put the
\* relayed input X of an item with a result Y has been put Y before.
C4_RelayOrder ==
    \A n \in Nodes : relay[n] =>
        LET P == PutsBy(n) IN
        /\ \A i, j \in 1..Len(P) : i < j =>
              /\ P[i].cause <= P[j].cause
              /\ (P[i].cause = P[j].cause /\ P[i].kind = "relay") => P[j].kind = "relay"
        /\ \A j \in 1..Len(P) :
              (P[j].kind = "relay" /\ processed[n][P[j].cause].res # None) =>
                  /\ P[j].val = processed[n][P[j].cause].val
                  /\ \E i \in 1..(j - 1) :
                        /\ P[i].dst = P[j].dst
                        /\ P[i].cause = P[j].cause
                        /\ P[i].kind = "result"
                        /\ P[i].val = processed[n][P[j].cause].res

\* C4's case: both targets of a relaying plugin have been put the result
\* and the relayed input of its second item.
C4_Witness ==
    \E n \in Nodes :
        /\ relay[n] /\ outputs[n] = <<2, 3>>
        /\ CallDone(n, 2, 2)
        /\ processed[n][2].res # None
        /\ Len(CallPuts(n, 2, 2)) = 2

C6_FanOut ==
    \A n \in Nodes : \A k \in 1..Len(processed[n]) : \A c \in 1..Len(UpdateCalls(n)) :
        LET P == CallPuts(n, k, c)
            v == CallValue(n, c, processed[n][k].val, processed[n][k].res)
            want == [i \in 1..Len(outputs[n]) |-> [dst |-> outputs[n][i], val |-> v]]
            got == [i \in 1..Len(P) |-> [dst |-> P[i].dst, val |-> P[i].val]]
        IN  /\ IsPrefix(got, want)
            /\ (CallDone(n, k, c) /\ v # None) => got = want

\* C6's case: a broadcast to two different targets has returned.
C6_Witness ==
    \E n \in Nodes :
        /\ Len(outputs[n]) = 2
        /\ outputs[n][1] # outputs[n][2]
        /\ CallDone(n, 1, 1)
        /\ processed[n][1].res # None
        /\ Len(CallPuts(n, 1, 1)) = 2

\* C7: a plugin built with threaded=False has no queue, and every call of
\* input(item) on it has, by the time it ends, run process() on that item
\* and ended without an error.
C7_SyncInput ==
    /\ \A n \in Nodes : ~threaded[n] => ~HasAttr(n, "queue")
    /\ \A c \in syncCalls :
          /\ c.err = "ok"
          /\ \E k \in 1..Len(processed[c.node]) : processed[c.node][k].val = c.item

\* ----------------------------------------------------------- claims: graph
\* The outputs list plugin n had when the last call began (a plugin the call
\* itself constructed began with the empty list).
Old(n) == IF n \in DOMAIN before THEN before[n] ELSE <<>>

\* C8: an add() whose target is neither a plugin nor callable, or whose mode
\* is neither 'input' nor 'output', ends with an error (TypeError for the
\* target, else ValueError) and leaves the outputs list of every plugin as
\* it was.
C8_AddErrorFrame ==
    (ret.op = "add" /\ (ret.tkind = "other" \/ ret.mode \notin {"output", "input"})) =>
        /\ ret.err = (IF ret.tkind = "other" THEN "TypeError" ELSE "ValueError")
        /\ ret.result = None
        /\ \A n \in Plugins : outputs[n] = Old(n)

\* C8's case: add() of a callable with an unknown mode, on a graph that
\* already has an edge.
C8_Witness ==
    /\ ret.op = "add" /\ ret.err = "ValueError" /\ ret.tkind = "callable"
    /\ \E n \in DOMAIN before : before[n] # <<>>

\* C9: a successful add() appends one edge at the end of one list (the
\* target at the end of self's outputs for 'output', self at the end of the
\* target's outputs for 'input'), leaves every other list as it was and
\* returns self; and whatever the call, no list loses or moves an entry.
C9_AddAppendsOneEdge ==
    /\ \A n \in DOMAIN before : IsPrefix(before[n], outputs[n])
    /\ (ret.op = "add" /\ ret.err = "ok") =>
          LET plugin == IF ret.tkind = "callable" THEN Len(before) + 1 ELSE ret.target
              from == IF ret.mode = "output" THEN ret.self ELSE plugin
              to == IF ret.mode = "output" THEN plugin ELSE ret.self
          IN  /\ outputs[from] = Append(Old(from), to)
              /\ \A n \in Plugins \ {from} : outputs[n] = Old(n)
              /\ ret.result = ret.self

\* C9's case: add() in mode 'input' onto a list that already had an entry.
C9_Witness ==
    /\ ret.op = "add" /\ ret.err = "ok" /\ ret.mode = "input"
    /\ ret.tkind = "plugin"
    /\ Len(outputs[ret.target]) = 2

\* The plugins reachable from the plugins in S along output edges.
RECURSIVE Closure(_)
Closure(S) ==
    LET U == S \cup UNION {{outputs[n][i] : i \in 1..Len(outputs[n])} : n \in S} IN
    IF U = S THEN S ELSE Closure(U)

Reach(root) == Closure({root})

\* No cycle of output edges can be reached from root.
Acyclic(root) ==
    \A m \in Reach(root) :
        m \notin Closure({outputs[m][i] : i \in 1..Len(outputs[m])})

\* Depth-first pre-order from n: n, then each output's subtree in list order.
RECURSIVE PreOrder(_)
RECURSIVE PreOrderOf(_, _)
PreOrderOf(outs, i) ==
    IF i > Len(outs) THEN <<>> ELSE PreOrder(outs[i]) \o PreOrderOf(outs, i + 1)

PreOrder(n) == <<n>> \o PreOrderOf(outputs[n], 1)

\* The first plugin of a sequence that is of the type, or None.
FirstMatch(seq, type) ==
    LET hits == SelectSeq(seq, LAMBDA m : IsInstance(m, type)) IN
    IF hits = <<>> THEN None ELSE Head(hits)

Range(s) == {s[i] : i \in 1..Len(s)}

\* A.add(f) for a plain function f, on a threaded plugin A (plugin 1) whose
\* process() returns a value or None: add() wraps f in a Callback, plugin 2,
\* and appends it to A's outputs.
CallbackTopologies ==
    { [relay |-> <<r, FALSE>>, threaded |-> <<TRUE, TRUE>>,
       outputs |-> AddEdge(<< <<>>, <<>> >>, 1, 2, "output"),
       class |-> <<"Filter", "Callback">>, entry |-> {1}] : r \in BOOLEAN }

InitCallback ==
    /\ \E g \in CallbackTopologies :
          /\ relay = g.relay
          /\ threaded = g.threaded
          /\ outputs = g.outputs
          /\ class = g.class
          /\ entry = g.entry
    /\ itype = AllStr
    /\ Constructed
    /\ Idle

\* The _run loop of a plugin none of whose stages raises and all of whose
\* targets are threaded.
DispatchFlow(n) ==
    \/ Wait(n)
    \/ Clear(n)
    \/ Empty(n)
    \/ Get(n)
    \/ \E r \in ProcessResults(n, cur[n]) : ProcessReturn(n, r)
    \/ OutputNone(n)
    \/ OutputBroadcast(n)
    \/ DeliverPut(n)
    \/ DeliverSet(n)

\* External threads calling input() on threaded plugins.
ProduceFlow(p) ==
    \/ \E d \in Plugins : ExtPut(p, d)
    \/ ExtSet(p)

NextFlow ==
    \/ \E n \in Plugins : DispatchFlow(n)
    \/ \E p \in Producers : ProduceFlow(p)

SpecCallback == InitCallback /\ [][NextFlow]_vars

\* Fair scheduling of the two dispatch threads and of the producers' set().
SpecCallbackFair ==
    /\ SpecCallback
    /\ \A n \in 1..2 : WF_vars(DispatchFlow(n))
    /\ \A p \in Producers : WF_vars(ExtSet(p))

\* Nothing is left to do: every queue is empty, every loop waits with its
\* event clear, and no producer is inside input().
Quiescent ==
    /\ \A n \in Plugins : queue[n] = <<>> /\ pc[n] = "wait" /\ ~event[n]
    /\ \A p \in Producers : ppc[p] = "idle"

Channels == -1..MaxChannel

\* A loop that turns to the next item while process() is inside its call.
AfterEmit_NextItem(n) == "empty"

\* Where process() goes on when its call of self.output() has returned: a
\* ChatQuery to the next token, an Emitter to its return statement.
AfterEmit(n) == IF class[n] = "ChatQuery" THEN "token" ELSE "return"

\* process() of plugin n ends with an exception: the thread ends with it.
Raise(n) ==
    /\ processed' = [processed EXCEPT ![n] = Append(@, [val |-> cur[n], res |-> Raised])]
    /\ pc' = [pc EXCEPT ![n] = "dead"]

\* An output() that takes a channel beyond the list for the last one.
EmitCall_Clamp(n, v, ch) ==
    /\ emitted' = [emitted EXCEPT ![n] = Append(@,
           [item |-> Len(processed[n]) + 1, val |-> v, channel |-> ch,
            err |-> "ok"])]
    /\ IF v = None \/ outputs[n] = <<>>
       THEN /\ pc' = [pc EXCEPT ![n] = AfterEmit(n)]
            /\ UNCHANGED <<val, idx, chan, processed>>
       ELSE /\ pc' = [pc EXCEPT ![n] = "eput"]
            /\ val' = [val EXCEPT ![n] = v]
            /\ idx' = [idx EXCEPT ![n] =
                   IF ch < 0 THEN 1
                   ELSE IF ch < Len(outputs[n]) THEN ch + 1 ELSE Len(outputs[n])]
            /\ chan' = [chan EXCEPT ![n] = ch]
            /\ UNCHANGED processed

\* process() of plugin n calls self.output(v, ch): lines 126-133 up to the
\* first input(). None returns at once; a channel >= 0 indexes self.outputs
\* (IndexError beyond its end); any other channel starts the for loop.
EmitCall(n, v, ch) ==
    /\ emitted' = [emitted EXCEPT ![n] = Append(@,
           [item |-> Len(processed[n]) + 1, val |-> v, channel |-> ch,
            err |-> IF v # None /\ ch >= Len(outputs[n]) THEN "IndexError" ELSE "ok"])]
    /\ IF v = None
       THEN /\ pc' = [pc EXCEPT ![n] = AfterEmit(n)]
            /\ UNCHANGED <<val, idx, chan, processed>>
       ELSE IF ch >= 0
       THEN IF ch < Len(outputs[n])
            THEN /\ pc' = [pc EXCEPT ![n] = "eput"]
                 /\ val' = [val EXCEPT ![n] = v]
                 /\ idx' = [idx EXCEPT ![n] = ch + 1]
                 /\ chan' = [chan EXCEPT ![n] = ch]
                 /\ UNCHANGED processed
            ELSE /\ Raise(n)
                 /\ UNCHANGED <<val, idx, chan>>
       ELSE IF outputs[n] = <<>>
       THEN /\ pc' = [pc EXCEPT ![n] = AfterEmit(n)]
            /\ UNCHANGED <<val, idx, chan, processed>>
       ELSE /\ pc' = [pc EXCEPT ![n] = "eput"]
            /\ val' = [val EXCEPT ![n] = v]
            /\ idx' = [idx EXCEPT ![n] = 1]
            /\ chan' = [chan EXCEPT ![n] = ch]
            /\ UNCHANGED processed

\* Emitter.process(input) calls self.output(v, ch), v made from the input.
EmitterProcess(n, ch) ==
    /\ pc[n] = "process"
    /\ class[n] = "Emitter"
    /\ ch \in Channels
    /\ EmitCall(n, Derive(cur[n]), ch)
    /\ UNCHANGED <<graphVars, prodVars, queue, event, cur, res, call, chat, stream,
                   delivered, syncCalls, ret, before>>

\* input(output) on the target the call has come to: its queue.put. On a
\* target built with threaded=False input() raises (see UpdateEntry), and
\* process() with it.
EmitPut(n) ==
    /\ pc[n] = "eput"
    /\ LET d == outputs[n][idx[n]] IN
          IF threaded[d]
          THEN /\ QueuePut(d, val[n], n, Len(processed[n]) + 1, "emit")
               /\ pc' = [pc EXCEPT ![n] = "eset"]
               /\ UNCHANGED processed
          ELSE /\ Raise(n)
               /\ UNCHANGED <<queue, delivered>>
    /\ UNCHANGED <<graphVars, stageVars, prodVars, event, cur, res, call, val, idx,
                   syncCalls, ret, before>>

\* ... and its event.set(); the for loop moves on, or output() returns into
\* process().
EmitSet(n) ==
    /\ pc[n] = "eset"
    /\ EventSet(outputs[n][idx[n]])
    /\ IF chan[n] < 0 /\ idx[n] < Len(outputs[n])
       THEN /\ pc' = [pc EXCEPT ![n] = "eput"]
            /\ idx' = [idx EXCEPT ![n] = @ + 1]
            /\ UNCHANGED val
       ELSE /\ pc' = [pc EXCEPT ![n] = AfterEmit(n)]
            /\ idx' = [idx EXCEPT ![n] = 0]
            /\ val' = [val EXCEPT ![n] = None]
    /\ UNCHANGED <<graphVars, stageVars, prodVars, queue, cur, res, call, delivered,
                   processed, syncCalls, ret, before>>

\* process() returns r to update(), which enters self.output(r).
Returned(n, r) ==
    /\ processed' = [processed EXCEPT ![n] = Append(@, [val |-> cur[n], res |-> r])]
    /\ res' = [res EXCEPT ![n] = r]
    /\ call' = [call EXCEPT ![n] = 1]
    /\ val' = [val EXCEPT ![n] = CallValue(n, 1, cur[n], r)]
    /\ pc' = [pc EXCEPT ![n] = "output"]

\* Emitter.process() returns a value or None after its call.
EmitterReturn(n, r) ==
    /\ pc[n] = "return"
    /\ r \in {None, Derive(cur[n])}
    /\ Returned(n, r)
    /\ UNCHANGED <<graphVars, stageVars, prodVars, queue, event, cur, idx, delivered,
                   syncCalls, ret, before>>

\* Pipelines whose first stage calls self.output() inside process(): an
\* Emitter with two outputs, both plain Plugin() instances, and an Emitter
\* that relays, with one output; and a relaying stage whose process() may
\* raise.
StreamTopologies ==
    { [relay |-> <<FALSE, FALSE, FALSE>>, threaded |-> <<TRUE, TRUE, TRUE>>,
       outputs |-> << <<2, 3>>, <<>>, <<>> >>,
       class |-> <<"Emitter", "Plugin", "Plugin">>, entry |-> {1},
       types |-> {AllStr}],
      [relay |-> <<TRUE, FALSE, FALSE>>, threaded |-> <<TRUE, TRUE, TRUE>>,
       outputs |-> << <<2>>, <<>>, <<>> >>,
       class |-> <<"Emitter", "Sink", "Sink">>, entry |-> {1},
       types |-> {AllStr}],
      [relay |-> <<TRUE, FALSE, FALSE>>, threaded |-> <<TRUE, TRUE, TRUE>>,
       outputs |-> << <<2>>, <<>>, <<>> >>,
       class |-> <<"Failing", "Sink", "Sink">>, entry |-> {1},
       types |-> {AllStr}] }

InitStream ==
    /\ \E g \in StreamTopologies :
          /\ relay = g.relay
          /\ threaded = g.threaded
          /\ outputs = g.outputs
          /\ class = g.class
          /\ entry = g.entry
          /\ itype \in g.types
    /\ Constructed
    /\ Idle

\* The external thread that feeds these pipelines.
Feeders == {p \in Producers : p = 4}

\* The _run loop of a plugin of these pipelines.
DispatchStream(n) ==
    \/ Wait(n)
    \/ Clear(n)
    \/ Empty(n)
    \/ Get(n)
    \/ \E r \in ProcessResults(n, cur[n]) : ProcessReturn(n, r)
    \/ ProcessRaise(n)
    \/ \E ch \in Channels : EmitterProcess(n, ch)
    \/ EmitPut(n)
    \/ EmitSet(n)
    \/ \E r \in {None, Derive(cur[n])} : EmitterReturn(n, r)
    \/ OutputNone(n)
    \/ OutputBroadcast(n)
    \/ DeliverPut(n)
    \/ DeliverSet(n)

NextStream ==
    \/ \E n \in Plugins : DispatchStream(n)
    \/ \E p \in Feeders : ProduceFlow(p)

SpecStream == InitStream /\ [][NextStream]_vars

\* The puts plugin n made from inside process() of its k-th item.
EmitPuts(n, k) == SelectSeq(PutsFor(n, k), LAMBDA e : e.kind = "emit")

\* process() of n's k-th item has returned (not raised).
ProcessDone(n, k) == k <= Len(processed[n]) /\ processed[n][k].res # Raised

\* C12: a call output(value, channel) with a value other than None and
\* 0 <= channel < len(outputs) makes one put, on outputs[channel], and none
\* on any other output (none yet or that one while it is in progress); with
\* channel >= len(outputs) it raises IndexError, having made no put, and
\* process() ends with it.
C12_ChannelSelects ==
    \A n \in Plugins : \A i \in 1..Len(emitted[n]) :
        LET e == emitted[n][i]
            P == EmitPuts(n, e.item)
            got == [j \in 1..Len(P) |-> [dst |-> P[j].dst, val |-> P[j].val]]
        IN  (class[n] = "Emitter" /\ e.val # None /\ e.channel >= 0) =>
                IF e.channel < Len(outputs[n])
                THEN LET want == << [dst |-> outputs[n][e.channel + 1], val |-> e.val] >> IN
                     /\ e.err = "ok"
                     /\ IsPrefix(got, want)
                     /\ (ProcessDone(n, e.item) \/ (i = Len(emitted[n]) /\ pc[n] = "return"))
                            => got = want
                ELSE /\ e.err = "IndexError"
                     /\ got = <<>>
                     /\ e.item <= Len(processed[n])
                     /\ processed[n][e.item].res = Raised
                     /\ Dead(n)

\* C12's case: a call on channel 1 of two has returned, with its one put on
\* the second output.
C12_Witness ==
    \E n \in Plugins : \E i \in 1..Len(emitted[n]) :
        /\ Len(outputs[n]) = 2 /\ outputs[n][1] # outputs[n][2]
        /\ emitted[n][i].channel = 1 /\ emitted[n][i].val # None
        /\ ProcessDone(n, emitted[n][i].item)
        /\ Len(EmitPuts(n, emitted[n][i].item)) = 1
        /\ EmitPuts(n, emitted[n][i].item)[1].dst = outputs[n][2]

\* The process() invocations of plugin n in progress: items taken off the
\* queue whose process() has neither returned nor raised.
InProgress(n) == Len(Received(n)) - Len(queue[n]) - Len(processed[n])

\* The place of a put within its item: from inside process(), then the
\* result, then the relayed input.
KindRank(k) == CASE k = "emit" -> 1 [] k = "result" -> 2 [] k = "relay" -> 3 [] OTHER -> 0

\* C13: a threaded plugin has at most one process() invocation in progress,
\* and the puts it makes are grouped by item in the order of the items: for
\* each item those from inside process(), then those of the result, then
\* those of the relayed input, all before any put for the next item.
C13_OneItemAtATime ==
    \A n \in Plugins : threaded[n] =>
        /\ InProgress(n) \in {0, 1}
        /\ InProgress(n) = 1 <=> pc[n] \in {"process", "eput", "eset", "token", "return"}
        /\ LET P == PutsBy(n) IN
           \A i, j \in 1..Len(P) : i < j =>
              /\ P[i].cause <= P[j].cause
              /\ P[i].cause = P[j].cause => KindRank(P[i].kind) <= KindRank(P[j].kind)

\* C13's case: a plugin has put a value from inside process(), the result
\* and the relayed input for its first item, and then something for its
\* second.
C13_Witness ==
    \E n \in Plugins :
        LET P == PutsBy(n) IN
        /\ Len(P) >= 4
        /\ P[1].cause = 1 /\ P[1].kind = "emit"
        /\ P[2].cause = 1 /\ P[2].kind = "result"
        /\ P[3].cause = 1 /\ P[3].kind = "relay"
        /\ P[4].cause = 2

\* ---------------------------------------------------------- claims: handoff
\* C14: input() on a threaded plugin can always go ahead, whatever the
\* length of the queue and wherever the consumer stands, and all it does is
\* append the item and set the event: a step that adds to a queue appends
\* one item at its tail and moves no dispatch thread but the one that made
\* it. Hence a dispatch thread inside output() on a threaded target can
\* always take its next step, and a live dispatch thread can take a step in
\* every state but one: in wait with its event clear.
C14_NonBlockingInput ==
    /\ [](\A p \in Producers :
            /\ ppc[p] = "idle" /\ nextItem <= MaxItems =>
                  \A d \in entry : threaded[d] => ENABLED ExtPut(p, d)
            /\ ppc[p] = "set" => ENABLED ExtSet(p))
    /\ [](\A n \in Nodes :
            /\ (pc[n] = "put" /\ threaded[outputs[n][idx[n]]]) => ENABLED DeliverPut(n)
            /\ pc[n] = "set" => ENABLED DeliverSet(n)
            /\ pc[n] \notin {"none", "dead"} =>
                  (ENABLED Dispatch(n) <=> ~(pc[n] = "wait" /\ ~event[n])))
    /\ [][\A d \in Nodes :
            Len(queue'[d]) > Len(queue[d]) =>
                /\ \E x \in Range(queue'[d]) : queue'[d] = Append(queue[d], x)
                /\ \A n \in Nodes :
                      pc'[n] # pc[n] => (pc[n] = "put" /\ outputs[n][idx[n]] = d)
                /\ event' = event /\ processed' = processed]_vars

\* C14's case: a dispatch thread is about to put on the queue of a threaded
\* plugin that already holds two items, its consumer busy in process().
C14_Witness ==
    \E n \in Nodes :
        /\ pc[n] = "put"
        /\ LET d == outputs[n][idx[n]] IN
              /\ threaded[d]
              /\ Len(queue[d]) >= 2
              /\ pc[d] = "process"

\* ---------------------------------------------------------- claims: failure
\* The last entry of a non-empty sequence.
Last(s) == s[Len(s)]

\* C15: when process() of a threaded plugin raises for an item (by itself,
\* or because its call of output() raised on a channel beyond the list), the
\* loop ends there: the failing item is the last one passed to process(),
\* nothing was put for it as result or relay, and from then on the plugin
\* stays dead, passes nothing to process() and puts nothing, while input()
\* still accepts items into its queue.
C15_FailureEndsLoop ==
    /\ [](\A n \in Plugins : \A k \in 1..Len(processed[n]) :
            processed[n][k].res = Raised =>
                /\ Dead(n)
                /\ k = Len(processed[n])
                /\ \A j \in 1..(k - 1) : processed[n][j].val # processed[n][k].val
                /\ \A i \in 1..Len(PutsFor(n, k)) : PutsFor(n, k)[i].kind = "emit")
    /\ [](\A n \in Plugins : Dead(n) =>
            /\ Last(processed[n]).res = Raised
            /\ \A p \in Feeders :
                  (n \in entry /\ ppc[p] = "idle" /\ nextItem <= MaxItems) =>
                      ENABLED ExtPut(p, n)
            /\ \A m \in Plugins :
                  (pc[m] = "put" /\ outputs[m][idx[m]] = n) => ENABLED DeliverPut(m))
    /\ [][\A n \in Plugins : Dead(n) =>
            /\ Dead(n)'
            /\ processed'[n] = processed[n]
            /\ PutsBy(n)' = PutsBy(n)
            /\ IsPrefix(queue[n], queue'[n])]_vars

\* C15's case: a relaying plugin with an output is dead after its first
\* item, and an item is left in its queue.
C15_Witness ==
    \E n \in Plugins :
        /\ Dead(n) /\ relay[n] /\ outputs[n] # <<>>
        /\ Len(processed[n]) = 1
        /\ queue[n] # <<>>

\* ------------------------------------------------------ claims: termination
\* C16: find() comes back with its answer (a plugin or None) whenever no
\* cycle of output edges can be reached from the root; when one can and no
\* reachable plugin is of the type, it never comes back with an answer: the
\* calls nest deeper and deeper until the interpreter ends them.
C16_FindTermination ==
    ret.op = "find" =>
        /\ Acyclic(ret.self) => ret.result # RecursionError
        /\ (~Acyclic(ret.self)
              /\ \A m \in Reach(ret.self) : ~IsInstance(m, ret.type)) =>
                 ret.result = RecursionError

\* C16's case: find() from a plugin on a cycle of two, for a type nobody has.
C16_Witness ==
    /\ ret.op = "find" /\ ret.result = RecursionError
    /\ \E m \in Plugins \ {ret.self} :
          /\ m \in Range(outputs[ret.self])
          /\ ret.self \in Range(outputs[m])

\* ================================================================== cycles
\* A.add(B) and B.add(A): two threaded plugins whose process() always
\* returns a value, each the other's output; A relays or not.
CycleTopologies ==
    { [relay |-> <<r, FALSE>>, threaded |-> <<TRUE, TRUE>>,
       outputs |-> AddEdge(AddEdge(<< <<>>, <<>> >>, 1, 2, "output"), 2, 1, "output"),
       class |-> <<"Map", "Map">>, entry |-> {1}] : r \in BOOLEAN }

InitCycle ==
    /\ \E g \in CycleTopologies :
          /\ relay = g.relay
          /\ threaded = g.threaded
          /\ outputs = g.outputs
          /\ class = g.class
          /\ entry = g.entry
    /\ itype = AllStr
    /\ Constructed
    /\ Idle

\* The number of times process() has been applied to get value v.
Hops(v) == (v - 1) \div MaxItems

\* process() returns; the run is cut where a value has made MaxHops hops.
ProcessReturnWithin(n, r) ==
    /\ Hops(cur[n]) < MaxHops
    /\ ProcessReturn(n, r)

DispatchCycle(n) ==
    \/ Wait(n)
    \/ Clear(n)
    \/ Empty(n)
    \/ Get(n)
    \/ \E r \in ProcessResults(n, cur[n]) : ProcessReturnWithin(n, r)
    \/ OutputBroadcast(n)
    \/ DeliverPut(n)
    \/ DeliverSet(n)

NextCycle ==
    \/ \E n \in Plugins : DispatchCycle(n)
    \/ \E p \in Feeders : ProduceFlow(p)

SpecCycle == InitCycle /\ [][NextCycle]_vars

\* Fair scheduling of the two dispatch threads and of the feeder's set().
SpecCycleFair ==
    /\ SpecCycle
    /\ \A n \in 1..2 : WF_vars(DispatchCycle(n))
    /\ \A p \in Feeders : WF_vars(ExtSet(p))

\* The items queued on plugins 1..n.
RECURSIVE Queued(_)
Queued(n) == IF n = 0 THEN 0 ELSE Len(queue[n]) + Queued(n - 1)

\* The items in flight: queued somewhere, or held by a dispatch thread that
\* has not finished with them.
InFlight == Queued(Len(queue)) + Cardinality({n \in Plugins : cur[n] # None})

\* The items fed from outside so far.
Fed == nextItem - 1

\* C17: on a cycle of two threaded plugins whose process() always returns a
\* value, once an item has been fed no item ever leaves the system, so the
\* system is never at rest (all queues empty, all loops waiting); and if a
\* plugin of the cycle relays, the number of items in flight grows: it
\* reaches the number of hops the run is cut at and stays there.
C17_CycleNeverQuiesces ==
    /\ [](Fed >= 1 => (InFlight >= Fed /\ ~Quiescent))
    /\ (Fed >= 1 /\ \E n \in Plugins : relay[n]) ~> [](InFlight >= MaxHops)

\* C17's case: with A relaying, values have come round the cycle and four
\* items are in flight.
C17_Witness ==
    /\ relay[1] /\ outputs[1] = <<2>> /\ outputs[2] = <<1>>
    /\ \E i \in 1..Len(delivered) : delivered[i].src = 2 /\ delivered[i].dst = 1
    /\ InFlight >= 4

\* =================================================================== paths
\* A chain A -> B with A relaying, and a diamond A -> B -> D, A -> C -> D
\* (plugins 1, 2, 3, 4), every stage but the last returning a value; the
\* chain ends in a sink, the diamond in a plain Plugin().
PathTopologies ==
    { [relay |-> <<TRUE, FALSE>>, threaded |-> <<TRUE, TRUE>>,
       outputs |-> << <<2>>, <<>> >>,
       class |-> <<"Map", "Sink">>, entry |-> {1}],
      [relay |-> <<FALSE, FALSE, FALSE, FALSE>>, threaded |-> <<TRUE, TRUE, TRUE, TRUE>>,
       outputs |-> << <<2, 3>>, <<4>>, <<4>>, <<>> >>,
       class |-> <<"Map", "Map", "Map", "Plugin">>, entry |-> {1}] }

InitPath ==
    /\ \E g \in PathTopologies :
          /\ relay = g.relay
          /\ threaded = g.threaded
          /\ outputs = g.outputs
          /\ class = g.class
          /\ entry = g.entry
    /\ itype = AllStr
    /\ Constructed
    /\ Idle

NextPath ==
    \/ \E n \in Plugins : DispatchFlow(n) \/ ProcessRaise(n)
    \/ \E p \in Feeders : ProduceFlow(p)

SpecPath == InitPath /\ [][NextPath]_vars

\* The queue.put calls on plugin n, in the order they took effect.
PutsOn(n) == SelectSeq(delivered, LAMBDA e : e.dst = n)

\* There is exactly one edge from a to b.
SingleEdge(a, b) == Cardinality({i \in 1..Len(outputs[a]) : outputs[a][i] = b}) = 1

\* C18: along a single edge a -> b order is kept: b processes what it was
\* put in the order of the puts, and of the values a put on b, those made
\* for an earlier item of a were put before those made for a later one.
C18_PathOrder ==
    \A a, b \in Plugins : SingleEdge(a, b) =>
        /\ IsPrefix(ProcessedVals(b), Received(b))
        /\ LET R == PutsOn(b) IN
           \A i, j \in 1..Len(R) :
              (R[i].src = a /\ R[j].src = a /\ R[i].cause < R[j].cause) => i < j

\* C18's case: in the diamond, D was put the value that came through B for
\* the second item before the value that came through C for the first, and
\* B's two values in their order.
C18_Witness ==
    /\ Len(outputs) = 4
    /\ LET R == PutsOn(4) IN
       \E h, i, j \in 1..Len(R) :
          /\ h < i /\ i < j
          /\ R[h].src = 2 /\ R[h].cause = 1
          /\ R[i].src = 2 /\ R[i].cause = 2
          /\ R[j].src = 3 /\ R[j].cause = 1

\* =============================================================== ChatQuery
\* plugins/chat_query.py. The model (LocalLM) and ChatHistory are not part
\* of it: generate() is any sequence of at most MaxTokens tokens.

\* The types an input may have: the three process() knows, and any other.
InputTypes == {"str", "dict", "ChatHistory", "other"}

\* The j-th token generated for prompt x, and the generator object itself.
Token(x, j) == x + (j + 1) * MaxItems

StreamOf(x) == x + (MaxTokens + 2) * MaxItems

\* What self.model.generate(...) may yield for input x.
Generate(x) == { [j \in 1..k |-> Token(x, j)] : k \in 0..MaxTokens }

\* self.chat_history.append(role=..., ...)
ChatEntry(role, msg) == [role |-> role, msg |-> msg, text |-> <<>>]

\* ChatQuery.process(input), lines 75-99. A str or dict is appended as the
\* user's entry, the reply is generated from the plugin's own history and an
\* empty bot entry appended; a ChatHistory is generated from and the
\* generator returned; anything else raises TypeError.
ChatQueryProcess(n, toks) ==
    /\ pc[n] = "process"
    /\ class[n] = "ChatQuery"
    /\ toks \in Generate(cur[n])
    /\ IF itype[cur[n]] \in {"str", "dict"}
       THEN /\ chat' = [chat EXCEPT ![n] =
                   @ \o <<ChatEntry("user", cur[n]), ChatEntry("bot", None)>>]
            /\ stream' = [stream EXCEPT ![n] = [tokens |-> toks, next |-> 1]]
            /\ pc' = [pc EXCEPT ![n] = "token"]
            /\ UNCHANGED <<processed, res, call, val>>
       ELSE IF itype[cur[n]] = "ChatHistory"
       THEN /\ Returned(n, StreamOf(cur[n]))
            /\ UNCHANGED <<chat, stream>>
       ELSE /\ Raise(n)
            /\ UNCHANGED <<chat, stream, res, call, val>>
    /\ UNCHANGED <<graphVars, prodVars, queue, event, cur, idx, chan, emitted, delivered,
                   syncCalls, ret, before>>

\* A for loop that calls self.output() for every other token only.
ChatQueryToken_EveryOther(n) ==
    /\ pc[n] = "token"
    /\ LET g == stream[n]
           bot == Len(chat[n])
       IN  IF g.next > Len(g.tokens)
           THEN /\ chat' = [chat EXCEPT ![n][bot].text = g.tokens]
                /\ Returned(n, None)
                /\ UNCHANGED <<stream, idx, chan, emitted>>
           ELSE /\ chat' = [chat EXCEPT ![n][bot].text = Append(@, g.tokens[g.next])]
                /\ stream' = [stream EXCEPT ![n].next = @ + 2]
                /\ EmitCall(n, g.tokens[g.next], -1)
                /\ UNCHANGED <<res, call>>
    /\ UNCHANGED <<graphVars, prodVars, queue, event, cur, delivered, syncCalls, ret,
                   before>>

\* The for loop of lines 101-106: the next token is added to the bot entry's
\* text and passed to self.output(); after the last, the text is set from
\* the generator and process() falls off its end, returning None.
ChatQueryToken(n) ==
    /\ pc[n] = "token"
    /\ LET g == stream[n]
           bot == Len(chat[n])
       IN  IF g.next > Len(g.tokens)
           THEN /\ chat' = [chat EXCEPT ![n][bot].text = g.tokens]
                /\ Returned(n, None)
                /\ UNCHANGED <<stream, idx, chan, emitted>>
           ELSE /\ chat' = [chat EXCEPT ![n][bot].text = Append(@, g.tokens[g.next])]
                /\ stream' = [stream EXCEPT ![n].next = @ + 1]
                /\ EmitCall(n, g.tokens[g.next], -1)
                /\ UNCHANGED <<res, call>>
    /\ UNCHANGED <<graphVars, prodVars, queue, event, cur, delivered, syncCalls, ret,
                   before>>

\* A ChatQuery with two outputs, plain Plugin() instances, fed items of
\* every type.
ChatTopologies ==
    { [relay |-> <<r, FALSE, FALSE>>, threaded |-> <<TRUE, TRUE, TRUE>>,
       outputs |-> << <<2, 3>>, <<>>, <<>> >>,
       class |-> <<"ChatQuery", "Plugin", "Plugin">>, entry |-> {1}] : r \in BOOLEAN }

InitChat ==
    /\ \E g \in ChatTopologies :
          /\ relay = g.relay
          /\ threaded = g.threaded
          /\ outputs = g.outputs
          /\ class = g.class
          /\ entry = g.entry
    /\ itype \in [1..MaxItems -> InputTypes]
    /\ Constructed
    /\ Idle

DispatchChat(n) ==
    \/ Wait(n)
    \/ Clear(n)
    \/ Empty(n)
    \/ Get(n)
    \/ \E toks \in Generate(cur[n]) : ChatQueryProcess(n, toks)
    \/ ChatQueryToken(n)
    \/ EmitPut(n)
    \/ EmitSet(n)
    \/ ProcessRaise(n)
    \/ OutputNone(n)
    \/ OutputBroadcast(n)
    \/ DeliverPut(n)
    \/ DeliverSet(n)

NextChat ==
    \/ \E n \in Plugins : DispatchChat(n)
    \/ \E p \in Feeders : ProduceFlow(p)

SpecChat == InitChat /\ [][NextChat]_vars

\* The inputs process() of plugin n has been entered with, in order.
Started(n) ==
    ProcessedVals(n) \o (IF pc[n] \in {"token", "eput", "eset"} THEN <<cur[n]>> ELSE <<>>)

\* Those among them that were prompts (str or dict).
Prompts(n) == SelectSeq(Started(n), LAMBDA x : itype[x] \in {"str", "dict"})

\* The puts of output(t) for each t of toks in turn: per token one put on
\* each entry of n's outputs, in list order.
Broadcasts(n, toks) ==
    LET L == Len(outputs[n]) IN
    [i \in 1..(Len(toks) * L) |->
        [dst |-> outputs[n][((i - 1) % L) + 1], val |-> toks[((i - 1) \div L) + 1]]]

\* The puts plugin n made from inside process() of its k-th item: where and
\* what.
EmitTrace(n, k) ==
    LET P == EmitPuts(n, k) IN [i \in 1..Len(P) |-> [dst |-> P[i].dst, val |-> P[i].val]]

====
